---- MODULE Spec2Model ----
(***************************************************************************)
(* Event-Calendar: the recurrence expander (dateUtils.js), the occurrence  *)
(* and conflict resolver (eventUtils.js) and the parts of the Calendar and *)
(* EventModal components that call them.                                   *)
(*                                                                         *)
(* A JavaScript Date is a record [kind, valid, t]: t counts the minutes of *)
(* local time since 1970-01-01T00:00 (daylight-saving shifts are not       *)
(* modelled), valid = FALSE is the Invalid Date, kind = "undefined" is a   *)
(* missing argument.  A 'yyyy-MM-dd' string is the tuple <<y, m, d>> and a *)
(* 'HH:MM' string the tuple <<h, m>>, so that parsing is a real function.  *)
(***************************************************************************)
EXTENDS Integers, Sequences, FiniteSets, TLC

VARIABLES
  startDate,      \* generateRecurringDates: argument startDate
  pattern,        \* generateRecurringDates: argument pattern
  interval,       \* generateRecurringDates: argument interval
  endDate,        \* generateRecurringDates: argument endDate
  dates,          \* generateRecurringDates: the returned array
  pc,             \* position of the current call: "call" before, "done" after
  now,            \* the wall clock, what "new Date()" returns
  events,         \* the event list handed to the resolver
  queryDate,      \* getEventsForDate: argument date
  shown,          \* getEventsForDate: the returned array
  newEvent,       \* checkEventConflicts: argument newEvent
  conflicts,      \* checkEventConflicts: the returned array; in the
                  \* EventModal, its state "conflicts"
  selectedDate,   \* Calendar: state selectedDate
  showModal,      \* Calendar: state showModal
  editingEvent,   \* Calendar: state editingEvent, NoEvent for null
  formData,       \* EventModal: state formData
  formErrors,     \* EventModal: state formErrors, the fields that have one
  nextId,         \* the number of ids generateTimestampId has handed out
  callee,         \* the function the current call is a call of
  threw,          \* whether the call ended in an exception at its caller
  showEventList,  \* Calendar: state showEventList
  pending,        \* useLocalStorage: the state update queued by
                  \* setStoredValue, applied at the next render
  localStorage,   \* the item stored under the key of the event list
  setError,       \* useLocalStorage: whether the last setValue logged an error
  drag            \* react-dnd: the drag operation in progress

expandVars  == <<startDate, pattern, interval, endDate, dates>>
resolveVars == <<now, events, queryDate, shown, newEvent, conflicts>>

modalVars   == <<selectedDate, showModal, editingEvent, formData, formErrors,
                 nextId, showEventList>>
callVars    == <<callee, threw>>
hostVars    == <<pending, localStorage, setError, drag>>

vars == <<startDate, pattern, interval, endDate, dates, pc,
          now, events, queryDate, shown, newEvent, conflicts,
          selectedDate, showModal, editingEvent, formData, formErrors,
          nextId, callee, threw, showEventList, pending, localStorage,
          setError, drag>>

----------------------------------------------------------------------------
(* Bounds of the model *)

\* intervals 0..MaxInterval are tried besides the out-of-range ones
MaxInterval == 3

\* longest event list handed to getEventsForDate
MaxEvents == 2

\* longest list of existing events handed to checkEventConflicts
MaxExisting == 2

\* longest event list the Calendar starts with
MaxStored == 2

\* the ids generateTimestampId hands out in the specification of the
\* Calendar's operations
MaxIds == 3

----------------------------------------------------------------------------
(* JavaScript values *)

Undefined   == [kind |-> "undefined", valid |-> FALSE, t |-> 0]
InvalidDate == [kind |-> "date", valid |-> FALSE, t |-> 0]
MkDate(t)   == [kind |-> "date", valid |-> TRUE, t |-> t]

Truthy(x) == x.kind # "undefined"

Max(a, b) == IF a >= b THEN a ELSE b
Min(a, b) == IF a <= b THEN a ELSE b

\* relational operators on Dates compare the time values; NaN compares false
DateLt(a, b)  == a.valid /\ b.valid /\ a.t < b.t
DateLeq(a, b) == a.valid /\ b.valid /\ a.t <= b.t

----------------------------------------------------------------------------
(* The proleptic Gregorian calendar of Date *)

IsLeapYear(y) == (y % 4 = 0 /\ y % 100 # 0) \/ y % 400 = 0

DaysInMonth(y, m) ==
  IF m = 2 THEN (IF IsLeapYear(y) THEN 29 ELSE 28)
  ELSE IF m \in {4, 6, 9, 11} THEN 30 ELSE 31

\* day number of the civil date y-m-d, 1970-01-01 being day 0
DaysFromCivil(y, m, d) ==
  LET yy  == IF m <= 2 THEN y - 1 ELSE y
      era == yy \div 400
      yoe == yy - era * 400
      mp  == IF m > 2 THEN m - 3 ELSE m + 9
      doy == (153 * mp + 2) \div 5 + d - 1
      doe == yoe * 365 + yoe \div 4 - yoe \div 100 + doy
  IN  era * 146097 + doe - 719468

\* the civil date <<y, m, d>> of a day number
CivilFromDays(z) ==
  LET zz  == z + 719468
      era == zz \div 146097
      doe == zz - era * 146097
      yoe == (doe - doe \div 1460 + doe \div 36524 - doe \div 146096) \div 365
      doy == doe - (365 * yoe + yoe \div 4 - yoe \div 100)
      mp  == (5 * doy + 2) \div 153
      d   == doy - (153 * mp + 2) \div 5 + 1
      m   == IF mp < 10 THEN mp + 3 ELSE mp - 9
      y   == yoe + era * 400 + (IF m <= 2 THEN 1 ELSE 0)
  IN  <<y, m, d>>

DayOf(date)  == date.t \div 1440
TimeOf(date) == date.t % 1440

----------------------------------------------------------------------------
(* date-fns *)

isValid(date) == date.kind = "date" /\ date.valid

startOfDay(date) ==
  IF date.valid THEN MkDate(date.t - TimeOf(date)) ELSE InvalidDate

isSameDay(dateLeft, dateRight) ==
  /\ isValid(dateLeft) /\ isValid(dateRight)
  /\ startOfDay(dateLeft).t = startOfDay(dateRight).t

addDays(date, amount) ==
  IF date.valid THEN MkDate(date.t + amount * 1440) ELSE InvalidDate

\* a week taken for a day
addWeeks_asDays(date, amount) == addDays(date, amount)

addWeeks(date, amount) == addDays(date, amount * 7)

\* the day of the month is kept unless the target month is shorter, then the
\* last day of that month is taken; the time of day is kept
addMonths(date, amount) ==
  IF ~date.valid THEN InvalidDate
  ELSE LET c     == CivilFromDays(DayOf(date))
           mths  == c[1] * 12 + (c[2] - 1) + amount
           y     == mths \div 12
           m     == (mths % 12) + 1
           dim   == DaysInMonth(y, m)
           d     == IF c[3] >= dim THEN dim ELSE c[3]
       IN  MkDate(DaysFromCivil(y, m, d) * 1440 + TimeOf(date))

addYears(date, amount) == addMonths(date, amount * 12)

----------------------------------------------------------------------------
(* dateUtils.js: generateRecurringDates *)

\* a ceiling twice as high
maxIterations_doubled == 1000 + 1000

maxIterations == 1000

Patterns == {"daily", "weekly", "monthly", "none", "custom"}

\* the clamp without its lower bound: a negative interval stays negative
safeIntervalOf_noLowerClamp(i) == Min(IF i = 0 THEN 1 ELSE i, 365)

\* the clamp without its upper bound
safeIntervalOf_noUpperClamp(i) == Max(1, IF i = 0 THEN 1 ELSE i)

\* Math.max(1, Math.min(interval || 1, 365))
safeIntervalOf(i) == Max(1, Min(IF i = 0 THEN 1 ELSE i, 365))

\* a default horizon of three years
maxDateOf_threeYears(start, end) ==
  IF Truthy(end) /\ isValid(end) THEN end ELSE addYears(start, 3)

\* const maxDate = endDate && isValid(endDate) ? endDate : addYears(startDate, 1)
maxDateOf(start, end) ==
  IF Truthy(end) /\ isValid(end) THEN end ELSE addYears(start, 1)

\* the condition of the while loop
LoopCond(s, maxDate) ==
  ~s.returned /\ DateLt(s.currentDate, maxDate) /\ s.iterations < maxIterations

\* the body without the test "currentDate <= maxDate" before the push
LoopBody_pushAlways(s, pat, safeInterval, maxDate) ==
  IF pat \notin {"daily", "weekly", "monthly"}
  THEN [s EXCEPT !.iterations = s.iterations + 1, !.returned = TRUE]
  ELSE
  LET cur == CASE pat = "daily"   -> addDays(s.currentDate, safeInterval)
               [] pat = "weekly"  -> addWeeks(s.currentDate, safeInterval)
               [] pat = "monthly" -> addMonths(s.currentDate, safeInterval)
  IN  [currentDate |-> cur,
       dates       |-> Append(s.dates, startOfDay(cur)),
       iterations  |-> s.iterations + 1,
       returned    |-> FALSE]

\* the default case leaving the switch instead of returning
LoopBody_defaultBreak(s, pat, safeInterval, maxDate) ==
  LET cur == CASE pat = "daily"   -> addDays(s.currentDate, safeInterval)
               [] pat = "weekly"  -> addWeeks(s.currentDate, safeInterval)
               [] pat = "monthly" -> addMonths(s.currentDate, safeInterval)
               [] OTHER           -> s.currentDate
  IN  [currentDate |-> cur,
       dates       |-> IF DateLeq(cur, maxDate)
                       THEN Append(s.dates, startOfDay(cur)) ELSE s.dates,
       iterations  |-> s.iterations + 1,
       returned    |-> FALSE]

\* one pass through the body of the while loop; an unknown pattern returns
LoopBody(s, pat, safeInterval, maxDate) ==
  IF pat \notin {"daily", "weekly", "monthly"}
  THEN [s EXCEPT !.iterations = s.iterations + 1, !.returned = TRUE]
  ELSE
  LET cur == CASE pat = "daily"   -> addDays(s.currentDate, safeInterval)
               [] pat = "weekly"  -> addWeeks(s.currentDate, safeInterval)
               [] pat = "monthly" -> addMonths(s.currentDate, safeInterval)
  IN  [currentDate |-> cur,
       dates       |-> IF DateLeq(cur, maxDate)
                       THEN Append(s.dates, startOfDay(cur)) ELSE s.dates,
       iterations  |-> s.iterations + 1,
       returned    |-> FALSE]

\* the while loop, run for at most n passes; the passes are split in halves
\* to keep the evaluation shallow, the order of the passes is the loop's
RECURSIVE WhileLoop(_, _, _, _, _)
WhileLoop(s, n, pat, safeInterval, maxDate) ==
  IF n = 0 \/ ~LoopCond(s, maxDate) THEN s
  ELSE IF n = 1 THEN LoopBody(s, pat, safeInterval, maxDate)
  ELSE LET half == WhileLoop(s, n \div 2, pat, safeInterval, maxDate)
       IN  WhileLoop(half, n - n \div 2, pat, safeInterval, maxDate)

\* the first element pushed as given, without startOfDay
RunRecurring_rawAnchor(start, pat, i, end) ==
  WhileLoop([currentDate |-> start,
             dates       |-> <<start>>,
             iterations  |-> 0,
             returned    |-> FALSE],
            maxIterations, pat, safeIntervalOf(i), maxDateOf(start, end))

\* the state of the loop when the function returns
RunRecurring(start, pat, i, end) ==
  WhileLoop([currentDate |-> start,
             dates       |-> <<startOfDay(start)>>,
             iterations  |-> 0,
             returned    |-> FALSE],
            maxIterations, pat, safeIntervalOf(i), maxDateOf(start, end))

\* the function without the test of the start date
generateRecurringDates_noGuard(start, pat, i, end) ==
  RunRecurring(start, pat, i, end).dates

generateRecurringDates(start, pat, i, end) ==
  IF ~isValid(start) THEN <<>>
  ELSE RunRecurring(start, pat, i, end).dates

----------------------------------------------------------------------------
(* Strings and events *)

\* 'yyyy-MM-dd' is <<y, m, d>>; it names a day iff month and day exist
WellFormedDate(str) ==
  /\ str[2] \in 1 .. 12
  /\ str[3] >= 1 /\ str[3] <= DaysInMonth(str[1], str[2])

\* 'HH:MM' is <<h, m>>
WellFormedTime(str) == str[1] \in 0 .. 23 /\ str[2] \in 0 .. 59

\* parseISO of date-fns: local midnight of the day, or the Invalid Date
parseISO(str) ==
  IF WellFormedDate(str)
  THEN MkDate(DaysFromCivil(str[1], str[2], str[3]) * 1440)
  ELSE InvalidDate

\* new Date(`${date}T${time}`): local time, or the Invalid Date
NewDateTime(dateStr, timeStr) ==
  IF WellFormedDate(dateStr) /\ WellFormedTime(timeStr)
  THEN MkDate(DaysFromCivil(dateStr[1], dateStr[2], dateStr[3]) * 1440
              + timeStr[1] * 60 + timeStr[2])
  ELSE InvalidDate

\* the id of an object that has no id property
NoId == "undefined"

Event(id, title, d, st, et, rec, pat, i) ==
  [id |-> id, title |-> title, date |-> d, startTime |-> st, endTime |-> et,
   recurring |-> rec, recurrencePattern |-> pat, recurrenceInterval |-> i]

NoEvent == Event(NoId, "", <<0, 0, 0>>, <<0, 0>>, <<0, 0>>, FALSE, "none", 1)

\* null or undefined where an event is expected, as an element of a list or
\* as the argument newEvent
NullEvent == Event("null", "", <<0, 0, 0>>, <<0, 0>>, <<0, 0>>, FALSE, "none", 1)

\* a value that is not an array where a list of events is expected
NotAnArray ==
  << Event("not-an-array", "", <<0, 0, 0>>, <<0, 0>>, <<0, 0>>, FALSE,
           "none", 1) >>

\* Array.isArray
IsArray(list) == list # NotAnArray

\* reading a property of null or undefined raises a TypeError
PropertyReadThrows(obj) == obj = NullEvent

\* a try block whose exception leaves the function
TryCatch_rethrow(raises, value, fallback) ==
  [threw |-> raises, value |-> IF raises THEN fallback ELSE value]

\* try { return value } catch (error) { return fallback }: raises tells
\* whether the try block raises before it returns
TryCatch(raises, value, fallback) ==
  [threw |-> FALSE, value |-> IF raises THEN fallback ELSE value]

\* no state update queued
NoPending == [set |-> FALSE, value |-> <<>>]

\* getItem returns null: nothing is stored under the key
NoItem == [present |-> FALSE, item |-> <<>>]

\* nothing is being dragged
NoDrag == [phase |-> "idle", item |-> NoId, from |-> Undefined,
           over |-> Undefined,
           dropResult |-> [isNull |-> TRUE, date |-> Undefined]]

\* no date selected, no modal or list shown, no event being edited
ModalClosed ==
  /\ selectedDate = Undefined /\ showModal = FALSE /\ showEventList = FALSE
  /\ editingEvent = NoEvent /\ formData = NoEvent /\ formErrors = {}

\* the hook has nothing queued or stored, nothing is dragged
HostIdle ==
  /\ pending = NoPending /\ localStorage = NoItem /\ setError = FALSE
  /\ drag = NoDrag

----------------------------------------------------------------------------
(* dateUtils.js: parseDate *)

\* an unparseable string yields "new Date()", the current instant
parseDate(dateString, clock) ==
  LET parsed == parseISO(dateString)
  IN  IF isValid(parsed) THEN parsed ELSE clock

----------------------------------------------------------------------------
(* eventUtils.js: getEventsForDate *)

\* the recurring branch taken on the pattern alone, the flag not looked at
OccursOn_patternOnly(event, d, clock) ==
  IF event.recurrencePattern # "none"
  THEN LET eventStartDate == parseDate(event.date, clock)
           recurringDates ==
             generateRecurringDates(
               eventStartDate, event.recurrencePattern,
               IF event.recurrenceInterval = 0 THEN 1
               ELSE event.recurrenceInterval,
               Undefined)
       IN  IF ~isValid(eventStartDate) THEN FALSE
           ELSE \E k \in 1 .. Len(recurringDates) :
                  isSameDay(recurringDates[k], d)
  ELSE LET eventDate == parseDate(event.date, clock)
       IN  isValid(eventDate) /\ isSameDay(eventDate, d)

\* the recurring branch comparing the anchor only, nothing expanded
OccursOn_anchorOnly(event, d, clock) ==
  LET eventDate == parseDate(event.date, clock)
  IN  isValid(eventDate) /\ isSameDay(eventDate, d)

\* the callback of events.filter
OccursOn(event, d, clock) ==
  IF event.recurring /\ event.recurrencePattern # "none"
  THEN LET eventStartDate == parseDate(event.date, clock)
           recurringDates ==
             generateRecurringDates(
               eventStartDate, event.recurrencePattern,
               IF event.recurrenceInterval = 0 THEN 1
               ELSE event.recurrenceInterval,
               Undefined)
       IN  IF ~isValid(eventStartDate) THEN FALSE
           ELSE \E k \in 1 .. Len(recurringDates) :
                  isSameDay(recurringDates[k], d)
  ELSE LET eventDate == parseDate(event.date, clock)
       IN  isValid(eventDate) /\ isSameDay(eventDate, d)

\* the callback inside its try block: "event.recurring" is its first
\* statement, and the catch clause returns false
OccursOnTry(event, d, clock) ==
  TryCatch(PropertyReadThrows(event), OccursOn(event, d, clock), FALSE)

\* the matching events returned last first
getEventsForDate_reversed(evts, d, clock) ==
  IF ~IsArray(evts) \/ ~isValid(d) THEN <<>>
  ELSE LET kept == SelectSeq(evts, LAMBDA event :
                                     OccursOnTry(event, d, clock).value)
       IN  [k \in 1 .. Len(kept) |-> kept[Len(kept) + 1 - k]]

getEventsForDate(evts, d, clock) ==
  IF ~IsArray(evts) \/ ~isValid(d) THEN <<>>
  ELSE SelectSeq(evts, LAMBDA event : OccursOnTry(event, d, clock).value)

\* whether an exception leaves getEventsForDate: the callback is the only
\* code that can raise one
getEventsForDateThrows(evts, d, clock) ==
  /\ IsArray(evts) /\ isValid(d)
  /\ \E k \in 1 .. Len(evts) : OccursOnTry(evts[k], d, clock).threw

----------------------------------------------------------------------------
(* eventUtils.js: checkEventConflicts *)

\* the overlap test with <= and >=: touching intervals conflict
ConflictsWith_closed(event, candidate, clock) ==
  LET newStart      == NewDateTime(candidate.date, candidate.startTime)
      newEnd        == NewDateTime(candidate.date, candidate.endTime)
      eventDate     == parseDate(event.date, clock)
      newEventDate  == parseDate(candidate.date, clock)
      existingStart == NewDateTime(event.date, event.startTime)
      existingEnd   == NewDateTime(event.date, event.endTime)
  IN  IF event.id = candidate.id THEN FALSE
      ELSE IF ~isValid(eventDate) \/ ~isValid(newEventDate) THEN FALSE
      ELSE IF ~isSameDay(eventDate, newEventDate) THEN FALSE
      ELSE IF ~isValid(existingStart) \/ ~isValid(existingEnd) THEN FALSE
      ELSE DateLeq(newStart, existingEnd) /\ DateLeq(existingStart, newEnd)

\* the filter without the comparison of the ids
ConflictsWith_noSelfCheck(event, candidate, clock) ==
  LET newStart      == NewDateTime(candidate.date, candidate.startTime)
      newEnd        == NewDateTime(candidate.date, candidate.endTime)
      eventDate     == parseDate(event.date, clock)
      newEventDate  == parseDate(candidate.date, clock)
      existingStart == NewDateTime(event.date, event.startTime)
      existingEnd   == NewDateTime(event.date, event.endTime)
  IN  IF ~isValid(eventDate) \/ ~isValid(newEventDate) THEN FALSE
      ELSE IF ~isSameDay(eventDate, newEventDate) THEN FALSE
      ELSE IF ~isValid(existingStart) \/ ~isValid(existingEnd) THEN FALSE
      ELSE DateLt(newStart, existingEnd) /\ DateLt(existingStart, newEnd)

\* the overlap test asking only whether the candidate starts inside the
\* existing event
ConflictsWith_startInside(event, candidate, clock) ==
  LET newStart      == NewDateTime(candidate.date, candidate.startTime)
      eventDate     == parseDate(event.date, clock)
      newEventDate  == parseDate(candidate.date, clock)
      existingStart == NewDateTime(event.date, event.startTime)
      existingEnd   == NewDateTime(event.date, event.endTime)
  IN  IF event.id = candidate.id THEN FALSE
      ELSE IF ~isValid(eventDate) \/ ~isValid(newEventDate) THEN FALSE
      ELSE IF ~isSameDay(eventDate, newEventDate) THEN FALSE
      ELSE IF ~isValid(existingStart) \/ ~isValid(existingEnd) THEN FALSE
      ELSE DateLt(newStart, existingEnd) /\ DateLeq(existingStart, newStart)

\* the filter asking whether the existing event occurs on the candidate's
\* day, its recurrence expanded, instead of comparing the stored date
ConflictsWith_expandRecurring(event, candidate, clock) ==
  LET newStart      == NewDateTime(candidate.date, candidate.startTime)
      newEnd        == NewDateTime(candidate.date, candidate.endTime)
      eventDate     == parseDate(event.date, clock)
      newEventDate  == parseDate(candidate.date, clock)
      existingStart == NewDateTime(candidate.date, event.startTime)
      existingEnd   == NewDateTime(candidate.date, event.endTime)
  IN  IF event.id = candidate.id THEN FALSE
      ELSE IF ~isValid(eventDate) \/ ~isValid(newEventDate) THEN FALSE
      ELSE IF ~OccursOn(event, newEventDate, clock) THEN FALSE
      ELSE IF ~isValid(existingStart) \/ ~isValid(existingEnd) THEN FALSE
      ELSE DateLt(newStart, existingEnd) /\ DateLt(existingStart, newEnd)

\* the callback of existingEvents.filter
ConflictsWith(event, candidate, clock) ==
  LET newStart      == NewDateTime(candidate.date, candidate.startTime)
      newEnd        == NewDateTime(candidate.date, candidate.endTime)
      eventDate     == parseDate(event.date, clock)
      newEventDate  == parseDate(candidate.date, clock)
      existingStart == NewDateTime(event.date, event.startTime)
      existingEnd   == NewDateTime(event.date, event.endTime)
  IN  IF event.id = candidate.id THEN FALSE
      ELSE IF ~isValid(eventDate) \/ ~isValid(newEventDate) THEN FALSE
      ELSE IF ~isSameDay(eventDate, newEventDate) THEN FALSE
      ELSE IF ~isValid(existingStart) \/ ~isValid(existingEnd) THEN FALSE
      ELSE DateLt(newStart, existingEnd) /\ DateLt(existingStart, newEnd)

\* the callback inside its try block: "event.id" is its first statement,
\* and the catch clause returns false
ConflictsWithTry(event, candidate, clock) ==
  TryCatch(PropertyReadThrows(event),
           ConflictsWith(event, candidate, clock), FALSE)

\* one malformed existing event ending the whole check with no conflicts
checkEventConflicts_abortOnMalformed(candidate, existingEvents, clock) ==
  LET newStart == NewDateTime(candidate.date, candidate.startTime)
      newEnd   == NewDateTime(candidate.date, candidate.endTime)
  IN  IF candidate = NullEvent \/ ~IsArray(existingEvents) THEN <<>>
      ELSE IF ~isValid(newStart) \/ ~isValid(newEnd) THEN <<>>
      ELSE IF \E k \in 1 .. Len(existingEvents) :
                ~isValid(NewDateTime(existingEvents[k].date,
                                     existingEvents[k].startTime))
      THEN <<>>
      ELSE SelectSeq(existingEvents, LAMBDA event :
                       ConflictsWithTry(event, candidate, clock).value)

checkEventConflicts(candidate, existingEvents, clock) ==
  LET newStart == NewDateTime(candidate.date, candidate.startTime)
      newEnd   == NewDateTime(candidate.date, candidate.endTime)
      kept     == SelectSeq(existingEvents, LAMBDA event :
                              ConflictsWithTry(event, candidate, clock).value)
      raises   == \E k \in 1 .. Len(existingEvents) :
                    ConflictsWithTry(existingEvents[k], candidate, clock).threw
  IN  IF candidate = NullEvent \/ ~IsArray(existingEvents) THEN <<>>
      ELSE IF ~isValid(newStart) \/ ~isValid(newEnd) THEN <<>>
      ELSE TryCatch(raises, kept, <<>>).value

\* whether an exception leaves checkEventConflicts: the guard returns before
\* anything is read, and the rest runs inside the outer try block
checkEventConflictsThrows(candidate, existingEvents, clock) ==
  LET newStart == NewDateTime(candidate.date, candidate.startTime)
      newEnd   == NewDateTime(candidate.date, candidate.endTime)
      raises   == \E k \in 1 .. Len(existingEvents) :
                    ConflictsWithTry(existingEvents[k], candidate, clock).threw
  IN  /\ candidate # NullEvent /\ IsArray(existingEvents)
      /\ isValid(newStart) /\ isValid(newEnd)
      /\ TryCatch(raises, TRUE, TRUE).threw

----------------------------------------------------------------------------
(* Inputs *)

At(y, m, d, h, mi) == MkDate(DaysFromCivil(y, m, d) * 1440 + h * 60 + mi)

StartDates ==
  { At(2024, 1, 1, 0, 0), At(2024, 1, 31, 0, 0), At(2024, 2, 29, 9, 30),
    At(2023, 12, 31, 23, 59), At(2023, 3, 5, 0, 0), InvalidDate, Undefined }

Intervals == (0 .. MaxInterval) \cup {-1, 365, 366}

EndDates ==
  { Undefined, InvalidDate,
    At(2023, 1, 1, 0, 0),      \* before every start date
    At(2024, 2, 29, 0, 0),     \* the midnight of a start date that has a time
    At(2024, 3, 31, 12, 0), At(2026, 1, 1, 0, 0) }

----------------------------------------------------------------------------
(* Specification of the expander: the arguments are drawn, then the call *)

InitExpand ==
  /\ startDate \in StartDates
  /\ pattern \in Patterns
  /\ interval \in Intervals
  /\ endDate \in EndDates
  /\ dates = <<>>
  /\ pc = "call"
  /\ now = Undefined /\ events = <<>> /\ queryDate = Undefined /\ shown = <<>>
  /\ newEvent = NoEvent /\ conflicts = <<>>
  /\ ModalClosed /\ nextId = 1 /\ HostIdle
  /\ callee = "generateRecurringDates" /\ threw = FALSE

Expand ==
  /\ pc = "call"
  /\ dates' = generateRecurringDates(startDate, pattern, interval, endDate)
  /\ pc' = "done"
  /\ threw' = FALSE   \* no statement of the function raises: the start is
                      \* tested before any date arithmetic is done with it
  /\ UNCHANGED <<startDate, pattern, interval, endDate, callee>>
  /\ UNCHANGED resolveVars
  /\ UNCHANGED modalVars /\ UNCHANGED hostVars

NextExpand == Expand

SpecExpand == InitExpand /\ [][NextExpand]_vars

----------------------------------------------------------------------------
(* Properties of the expander, under SpecExpand *)

Returned == pc = "done" /\ isValid(startDate)

\* the horizon the call works with
Horizon == maxDateOf(startDate, endDate)

\* C1: for a valid start date the returned sequence has at least one element
\* and its first element is the start date at midnight, whatever the pattern,
\* the interval and the end date are.
C1_AnchorFirst ==
  Returned => Len(dates) >= 1 /\ dates[1] = startOfDay(startDate)

C1_Witness ==
  /\ Returned /\ TimeOf(startDate) # 0 /\ Len(dates) > 1
  /\ Truthy(endDate) /\ isValid(endDate)

\* C2: for the patterns daily, weekly and monthly every element of the
\* returned sequence is a strictly later calendar day than its predecessor.
C2_StrictlyIncreasing ==
  Returned /\ pattern \in {"daily", "weekly", "monthly"} =>
    \A k \in 1 .. Len(dates) - 1 : DayOf(dates[k]) < DayOf(dates[k + 1])

C2_Witness ==
  /\ Returned /\ pattern = "monthly" /\ interval < 1 /\ Len(dates) > 12

\* C3 as stated: every returned date is <= the effective horizon, also when
\* the supplied end date is before the start date.
C3_HorizonBound_Stated ==
  Returned => \A k \in 1 .. Len(dates) : DateLeq(dates[k], Horizon)

\* C3 amended: every returned date after the first is <= the effective
\* horizon, and so is the first (the anchor) unless the supplied end date is
\* earlier than the midnight of the start date.
C3_HorizonBound ==
  Returned =>
    \A k \in 1 .. Len(dates) :
      (k > 1 \/ DateLeq(startOfDay(startDate), Horizon))
        => DateLeq(dates[k], Horizon)

C3_Witness ==
  /\ Returned /\ Len(dates) > 1 /\ isValid(endDate)
  /\ dates[Len(dates)].t < Horizon.t
  /\ Horizon.t < dates[Len(dates)].t + 1440

\* the interval brought into 1 .. 365
Clamped(i) == IF i < 1 THEN 1 ELSE IF i > 365 THEN 365 ELSE i

\* C11 as stated: for the pattern daily consecutive occurrences are exactly
\* interval days apart and for weekly exactly 7 * interval days (the interval
\* as clamped), and no step is left out between the anchor and the horizon:
\* the step after the last occurrence is beyond the horizon.
C11_EvenSteps_Stated ==
  Returned /\ pattern \in {"daily", "weekly"} =>
    LET step == (IF pattern = "daily" THEN 1 ELSE 7) * Clamped(interval)
        n    == Len(dates)
    IN  /\ \A k \in 1 .. n - 1 : DayOf(dates[k + 1]) - DayOf(dates[k]) = step
        /\ ~DateLeq(addDays(startDate, n * step), Horizon)

\* C11 amended: the occurrences are exactly that far apart, and no step is
\* left out before the horizon unless the ceiling of 1000 passes cut the
\* loop short (then the sequence is the first 1001 steps).
C11_EvenSteps ==
  Returned /\ pattern \in {"daily", "weekly"} =>
    LET step == (IF pattern = "daily" THEN 1 ELSE 7) * Clamped(interval)
        n    == Len(dates)
    IN  /\ \A k \in 1 .. n - 1 : DayOf(dates[k + 1]) - DayOf(dates[k]) = step
        /\ IF n <= maxIterations
           THEN ~DateLeq(addDays(startDate, n * step), Horizon)
           ELSE n = maxIterations + 1

\* 2024-01-01, weekly, every 2, no end date: 01-15, 01-29, 02-12, ... and
\* 2024-12-30 is the last
C11_Witness ==
  /\ Returned /\ startDate = At(2024, 1, 1, 0, 0)
  /\ pattern = "weekly" /\ interval = 2 /\ endDate = Undefined
  /\ Len(dates) = 27
  /\ dates[4] = At(2024, 2, 12, 0, 0)
  /\ dates[27] = At(2024, 12, 30, 0, 0)

\* C12: the result for an interval is the result for that interval clamped
\* into 1 .. 365 (0 and negative intervals act as 1, intervals above 365 as
\* 365), and an interval inside 1 .. 365 is the step that is used.
C12_IntervalClamped ==
  Returned =>
    /\ dates = generateRecurringDates(startDate, pattern, Clamped(interval),
                                      endDate)
    /\ pattern = "daily" /\ interval \in 1 .. 365 /\ Len(dates) > 1 =>
         DayOf(dates[2]) - DayOf(dates[1]) = interval

C12_Witness ==
  /\ Returned /\ pattern = "daily" /\ interval = 366 /\ Len(dates) > 2
  /\ DayOf(dates[2]) - DayOf(dates[1]) = 365

C14_InvalidStartEmpty ==
  pc = "done" /\ ~isValid(startDate) => dates = <<>>

C14_Witness ==
  /\ pc = "done" /\ startDate = InvalidDate /\ pattern = "daily"
  /\ isValid(endDate) /\ dates = <<>>

\* the loop when the function returns: its cursor and its count of passes
LoopAtReturn == RunRecurring(startDate, pattern, interval, endDate)

\* C24: the loop makes at most 1000 passes whatever the pattern, the interval
\* and the horizon are, the result holds at most 1001 dates, and a loop that
\* the ceiling stopped before the horizon returns the dates of its 1000
\* passes after the anchor.
C24_AtMostThousandPasses ==
  pc = "done" =>
    /\ Len(dates) <= 1001
    /\ isValid(startDate) =>
         /\ LoopAtReturn.iterations <= 1000
         /\ Len(dates) <= LoopAtReturn.iterations + 1
         /\ LoopAtReturn.iterations = 1000
              /\ DateLt(LoopAtReturn.currentDate, Horizon)
            => /\ Len(dates) = 1001
               /\ dates[1] = startOfDay(startDate)
               /\ dates[1001] = startOfDay(LoopAtReturn.currentDate)

\* 2023-03-05, daily, end date 2026-01-01: 1033 days away
C24_Witness ==
  /\ Returned /\ pattern = "daily" /\ Clamped(interval) = 1
  /\ LoopAtReturn.iterations = 1000
  /\ DateLt(LoopAtReturn.currentDate, Horizon)
  /\ Len(dates) = 1001

\* C25: with no usable end date, so with the default horizon, and a pattern
\* of daily, weekly and monthly the loop ends because the cursor is no
\* longer before the horizon, with fewer than 1000 passes made.
C25_DefaultHorizonReached ==
  Returned /\ ~(Truthy(endDate) /\ isValid(endDate))
           /\ pattern \in {"daily", "weekly", "monthly"} =>
    /\ LoopAtReturn.iterations < maxIterations
    /\ ~DateLt(LoopAtReturn.currentDate, Horizon)

\* a leap year walked day by day: 366 passes
C25_Witness ==
  /\ Returned /\ endDate = Undefined /\ pattern = "daily"
  /\ Clamped(interval) = 1 /\ startDate = At(2024, 1, 1, 0, 0)
  /\ LoopAtReturn.iterations = 366 /\ Len(dates) = 367

\* C28: for the pattern monthly the k-th element of the result is the start
\* date advanced by (k - 1) * interval months at once, the day of the month
\* clamped to the target month only.
C28_MonthlyFromAnchor ==
  Returned /\ pattern = "monthly" =>
    \A k \in 1 .. Len(dates) :
      dates[k] = startOfDay(addMonths(startDate, (k - 1) * Clamped(interval)))

----------------------------------------------------------------------------
(* Specification of getEventsForDate: a clock and a list are drawn, then   *)
(* the list is filtered for a day                                          *)

BadDate == <<2024, 13, 1>>       \* '2024-13-01'
BadTime == <<25, 0>>             \* '25:00'

Nows == { At(2024, 3, 5, 14, 20), At(2024, 6, 15, 8, 0) }

\* an event of the list: its date and its recurring, recurrencePattern and
\* recurrenceInterval
Occurring(d, rec, pat, i) == Event("a", "t", d, <<9, 0>>, <<10, 0>>, rec, pat, i)

OccurPool ==
  { Occurring(<<2024, 3, 5>>, FALSE, "none", 1),
    Occurring(<<2024, 3, 5>>, TRUE, "none", 1),
    Occurring(<<2024, 3, 5>>, FALSE, "weekly", 1),
    Occurring(<<2024, 3, 5>>, TRUE, "daily", 0),
    Occurring(<<2024, 3, 5>>, TRUE, "weekly", 2),
    Occurring(<<2024, 3, 5>>, TRUE, "custom", 1),
    Occurring(<<2024, 1, 31>>, FALSE, "none", 1),
    Occurring(<<2024, 1, 31>>, TRUE, "monthly", 1),
    Occurring(BadDate, FALSE, "none", 1),
    Occurring(BadDate, TRUE, "weekly", 2),
    NullEvent }

QueryDates ==
  { At(2024, 1, 31, 0, 0), At(2024, 2, 29, 0, 0), At(2024, 3, 5, 0, 0),
    At(2024, 3, 5, 18, 45), At(2024, 3, 6, 0, 0), At(2024, 3, 19, 7, 0),
    At(2024, 6, 15, 0, 0), At(2025, 3, 5, 0, 0), At(2025, 3, 6, 0, 0),
    InvalidDate }

SeqsUpTo(S, n) == UNION { [1 .. k -> S] : k \in 0 .. n }

InSeq(x, seq) == \E k \in 1 .. Len(seq) : seq[k] = x

\* the lists handed to getEventsForDate, and a value that is no list
OccurLists == SeqsUpTo(OccurPool, MaxEvents) \cup {NotAnArray}

InitOccur ==
  /\ now \in Nows
  /\ events \in OccurLists
  /\ queryDate = Undefined /\ shown = <<>>
  /\ newEvent = NoEvent /\ conflicts = <<>>
  /\ startDate = Undefined /\ pattern = "none" /\ interval = 1
  /\ endDate = Undefined /\ dates = <<>>
  /\ ModalClosed /\ nextId = 1 /\ HostIdle
  /\ callee = "getEventsForDate" /\ threw = FALSE
  /\ pc = "call"

GetEventsForDate ==
  /\ pc = "call"
  /\ \E q \in QueryDates :
       /\ queryDate' = q
       /\ shown' = getEventsForDate(events, q, now)
       /\ threw' = getEventsForDateThrows(events, q, now)
  /\ pc' = "done"
  /\ UNCHANGED <<now, events, newEvent, conflicts, callee>>
  /\ UNCHANGED expandVars
  /\ UNCHANGED modalVars /\ UNCHANGED hostVars

NextOccur == GetEventsForDate

SpecOccur == InitOccur /\ [][NextOccur]_vars

----------------------------------------------------------------------------
(* Properties of getEventsForDate, under SpecOccur *)

Queried == pc = "done" /\ isValid(queryDate)

\* the 'yyyy-MM-dd' string of the calendar day of a Date
DayString(d) == CivilFromDays(DayOf(d))

\* C4: an event whose date string cannot be parsed is never returned by
\* getEventsForDate, for no query date, recurring or not.
C4_UnparseableNeverShown ==
  pc = "done" =>
    \A k \in 1 .. Len(events) :
      ~WellFormedDate(events[k].date) => ~InSeq(events[k], shown)

\* C9: an event that is not recurring and has a parseable date D is
\* returned for the query date Q iff Q is the calendar day D, whatever the
\* time of day of Q.
C9_SingleEventOnItsDay ==
  Queried =>
    \A k \in 1 .. Len(events) :
      ~events[k].recurring /\ WellFormedDate(events[k].date) =>
        (InSeq(events[k], shown) <=> DayString(queryDate) = events[k].date)

C9_Witness ==
  /\ Queried /\ TimeOf(queryDate) # 0 /\ Len(events) = 2
  /\ ~events[1].recurring /\ events[1].recurrencePattern = "weekly"
  /\ DayString(queryDate) = events[1].date
  /\ ~events[2].recurring /\ WellFormedDate(events[2].date)
  /\ shown = <<events[1]>>

\* C10: a recurring event with a pattern other than 'none' and a parseable
\* date is returned for Q iff Q is the calendar day of an element of
\* generateRecurringDates(anchor, pattern, interval or 1) with no end date.
C10_RecurringIffExpanded ==
  Queried =>
    \A k \in 1 .. Len(events) :
      LET e == events[k]
          expanded == generateRecurringDates(
                        parseISO(e.date), e.recurrencePattern,
                        IF e.recurrenceInterval = 0 THEN 1
                        ELSE e.recurrenceInterval, Undefined)
      IN  e.recurring /\ e.recurrencePattern # "none"
            /\ WellFormedDate(e.date) =>
          (InSeq(e, shown) <=>
             \E j \in 1 .. Len(expanded) :
               DayOf(expanded[j]) = DayOf(queryDate))

C10_Witness ==
  /\ Queried /\ Len(events) = 2
  /\ events[1].recurring /\ events[1].recurrencePattern = "monthly"
  /\ events[1].date = <<2024, 1, 31>>
  /\ DayString(queryDate) = <<2024, 2, 29>>
  /\ events[2].recurring /\ events[2].recurrencePattern = "weekly"
  /\ WellFormedDate(events[2].date)
  /\ shown = <<events[1]>>

RECURSIVE IsSubsequence(_, _)
IsSubsequence(sub, seq) ==
  IF sub = <<>> THEN TRUE
  ELSE IF seq = <<>> THEN FALSE
  ELSE IF Head(sub) = Head(seq) THEN IsSubsequence(Tail(sub), Tail(seq))
  ELSE IsSubsequence(sub, Tail(seq))

\* C17: a call of getEventsForDate leaves the list and its events as they
\* were, and what it returns is a subsequence of the list: events of the
\* list, in the order of the list.
C17_SubsequenceUnmodified ==
  [][pc' = "done" => events' = events /\ IsSubsequence(shown', events')]_vars

\* two different events of the list are both returned, in the list's order
C17_Witness ==
  /\ Queried /\ Len(events) = 2 /\ events[1] # events[2]
  /\ events[1].recurring /\ ~events[2].recurring
  /\ shown = events

----------------------------------------------------------------------------
(* Specification of checkEventConflicts: a clock, a candidate and a list   *)
(* of existing events are drawn, then the conflicts are computed           *)

ExistingPool ==
  { Event(id, "t", d, t[1], t[2], FALSE, "none", 1) :
      id \in {"a", "b"},
      d \in { <<2024, 3, 5>>, <<2024, 3, 6>>, BadDate },
      t \in { << <<9, 0>>, <<10, 0>> >>, << <<10, 0>>, <<11, 0>> >>,
              << BadTime, <<10, 0>> >> } }
  \cup { Event("b", "t", <<2024, 2, 27>>, <<9, 0>>, <<10, 0>>,
               TRUE, "weekly", 1),
         NullEvent }

\* the lists handed to checkEventConflicts, and a value that is no list
ExistingLists == SeqsUpTo(ExistingPool, MaxExisting) \cup {NotAnArray}

CandidatePool ==
  { Event(id, "t", d, t[1], t[2], FALSE, "none", 1) :
      id \in {"a", NoId},
      d \in { <<2024, 3, 5>>, BadDate },
      t \in { << <<9, 0>>, <<10, 0>> >>, << <<10, 0>>, <<11, 0>> >>,
              << <<9, 0>>, <<10, 1>> >>, << <<9, 30>>, <<9, 45>> >>,
              << <<9, 0>>, BadTime >> } }
  \cup {NullEvent}

InitConflict ==
  /\ now \in Nows
  /\ newEvent \in CandidatePool
  /\ events \in ExistingLists
  /\ conflicts = <<>>
  /\ queryDate = Undefined /\ shown = <<>>
  /\ startDate = Undefined /\ pattern = "none" /\ interval = 1
  /\ endDate = Undefined /\ dates = <<>>
  /\ ModalClosed /\ nextId = 1 /\ HostIdle
  /\ callee = "checkEventConflicts" /\ threw = FALSE
  /\ pc = "call"

CheckEventConflicts ==
  /\ pc = "call"
  /\ conflicts' = checkEventConflicts(newEvent, events, now)
  /\ threw' = checkEventConflictsThrows(newEvent, events, now)
  /\ pc' = "done"
  /\ UNCHANGED <<now, events, newEvent, queryDate, shown, callee>>
  /\ UNCHANGED expandVars
  /\ UNCHANGED modalVars /\ UNCHANGED hostVars

NextConflict == CheckEventConflicts

SpecConflict == InitConflict /\ [][NextConflict]_vars

----------------------------------------------------------------------------
(* Properties of checkEventConflicts, under SpecConflict *)

\* minutes since midnight of a well-formed 'HH:MM'
Minutes(str) == str[1] * 60 + str[2]

WellFormedTimes(e) ==
  WellFormedTime(e.startTime) /\ WellFormedTime(e.endTime)

WellFormedEvent(e) == WellFormedDate(e.date) /\ WellFormedTimes(e)

\* C5: for a candidate and an existing event on the same calendar day, with
\* different ids and well-formed times, the existing event is reported iff
\* candidateStart < existingEnd and candidateEnd > existingStart.
C5_OpenOverlap ==
  pc = "done" =>
    \A k \in 1 .. Len(events) :
      LET e == events[k]
      IN  /\ e.id # newEvent.id
          /\ WellFormedEvent(e) /\ WellFormedEvent(newEvent)
          /\ e.date = newEvent.date
          => (InSeq(e, conflicts) <=>
                /\ Minutes(newEvent.startTime) < Minutes(e.endTime)
                /\ Minutes(newEvent.endTime) > Minutes(e.startTime))

\* candidate 10:00-11:00 against 09:00-10:00 (touching, not reported) and
\* 10:00-11:00 (overlapping, reported)
C5_Witness ==
  /\ pc = "done" /\ Len(events) = 2
  /\ newEvent.id = NoId /\ newEvent.date = <<2024, 3, 5>>
  /\ newEvent.startTime = <<10, 0>> /\ newEvent.endTime = <<11, 0>>
  /\ events[1].date = newEvent.date /\ events[2].date = newEvent.date
  /\ events[1].endTime = newEvent.startTime /\ WellFormedTimes(events[1])
  /\ events[2].startTime = newEvent.startTime /\ WellFormedTimes(events[2])
  /\ conflicts = <<events[2]>>

\* C6: no event of the result of checkEventConflicts has the id of the
\* candidate, whatever the dates and times are.
C6_SelfExcluded ==
  pc = "done" =>
    \A j \in 1 .. Len(conflicts) : conflicts[j].id # newEvent.id

\* an existing event with the candidate's id and the candidate's interval
\* is left out while another event of that interval is reported
C6_Witness ==
  /\ pc = "done" /\ Len(events) = 2
  /\ newEvent.id = "a" /\ WellFormedEvent(newEvent)
  /\ events[1].id = "a" /\ events[2].id = "b"
  /\ \A k \in 1 .. 2 :
       /\ events[k].date = newEvent.date
       /\ events[k].startTime = newEvent.startTime
       /\ events[k].endTime = newEvent.endTime
  /\ conflicts = <<events[2]>>

\* C8: for well-formed events A and B on the same date, the conflicts of A
\* against [B] are non-empty iff the conflicts of B against [A] are.
C8_Symmetric ==
  pc = "done" =>
    \A k \in 1 .. Len(events) :
      LET e == events[k]
      IN  WellFormedEvent(e) /\ WellFormedEvent(newEvent)
            /\ e.date = newEvent.date
          => (InSeq(e, conflicts) <=>
                checkEventConflicts(e, <<newEvent>>, now) # <<>>)

C8_Witness ==
  /\ pc = "done" /\ Len(events) = 1
  /\ WellFormedEvent(events[1]) /\ WellFormedEvent(newEvent)
  /\ events[1].date = newEvent.date
  /\ newEvent.startTime = <<9, 0>> /\ newEvent.endTime = <<10, 1>>
  /\ events[1].startTime = <<10, 0>>
  /\ conflicts = events
  /\ checkEventConflicts(events[1], <<newEvent>>, now) = <<newEvent>>

\* C15: an existing event whose stored date is another calendar day than
\* the candidate's is never reported, a recurring one neither, even when one
\* of its occurrences falls on the candidate's day with overlapping times.
C15_StoredDateOnly ==
  pc = "done" =>
    \A k \in 1 .. Len(events) :
      /\ WellFormedDate(events[k].date) /\ WellFormedDate(newEvent.date)
      /\ events[k].date # newEvent.date
      => ~InSeq(events[k], conflicts)

\* a weekly event stored on 2024-02-27 occurs on 2024-03-05 from 09:00 to
\* 10:00 and the candidate of that day and time has no conflicts
C15_Witness ==
  /\ pc = "done" /\ Len(events) = 1
  /\ events[1].recurring /\ events[1].date # newEvent.date
  /\ events[1].id # newEvent.id
  /\ WellFormedEvent(events[1]) /\ WellFormedEvent(newEvent)
  /\ OccursOn(events[1], parseISO(newEvent.date), now)
  /\ Minutes(newEvent.startTime) < Minutes(events[1].endTime)
  /\ Minutes(newEvent.endTime) > Minutes(events[1].startTime)
  /\ conflicts = <<>>

\* C16: an existing event with a malformed start or end time is not in the
\* result and the result is the one computed for the list without such
\* events; a candidate with a malformed date or time has no conflicts.
C16_MalformedLeftOut ==
  pc = "done" =>
    /\ \A k \in 1 .. Len(events) :
         ~WellFormedTimes(events[k]) => ~InSeq(events[k], conflicts)
    /\ conflicts =
         checkEventConflicts(
           newEvent, SelectSeq(events, LAMBDA e : WellFormedTimes(e)), now)
    /\ ~WellFormedEvent(newEvent) => conflicts = <<>>

C16_Witness ==
  /\ pc = "done" /\ Len(events) = 2
  /\ WellFormedEvent(newEvent)
  /\ events[1].date = newEvent.date /\ events[2].date = newEvent.date
  /\ events[1].id # newEvent.id /\ events[2].id # newEvent.id
  /\ ~WellFormedTime(events[1].startTime)
  /\ WellFormedTimes(events[2])
  /\ conflicts = <<events[2]>>

----------------------------------------------------------------------------
(* eventUtils.js: validateEvent, and format of date-fns *)

\* title, date, startTime and endTime are non-empty strings; the date and
\* time strings of the model are never empty
validateEvent(event) == event.title # ""

\* format(date, 'yyyy-MM-dd')
format(d) == CivilFromDays(DayOf(d))

----------------------------------------------------------------------------
(* EventModal.jsx: the form of the modal *)

\* initialFormData: the form of a modal that has just been mounted
initialFormData(selected, clock) ==
  Event(NoId, "",
        IF Truthy(selected) THEN format(selected) ELSE format(clock),
        <<9, 0>>, <<10, 0>>, FALSE, "none", 1)

\* the form the populate effect sets from the event being edited; the id of
\* the event is not among the copied fields
PopulatedForm(event) ==
  Event(NoId, event.title, event.date, event.startTime, event.endTime,
        event.recurring, event.recurrencePattern,
        IF event.recurrenceInterval = 0 THEN 1 ELSE event.recurrenceInterval)

\* the conflict effect, run after the form has changed to form: the state
\* "conflicts" is set when the form validates and is left as it was otherwise
ConflictEffect(form, existingEvents, clock, old) ==
  IF validateEvent(form)
  THEN checkEventConflicts(form, existingEvents, clock)
  ELSE old

----------------------------------------------------------------------------
(* Specification of one call of any of the three functions: the function   *)
(* and its arguments are drawn, then it is called                          *)

InitCalls == InitExpand \/ InitOccur \/ InitConflict

NextCalls ==
  \/ callee = "generateRecurringDates" /\ Expand
  \/ callee = "getEventsForDate" /\ GetEventsForDate
  \/ callee = "checkEventConflicts" /\ CheckEventConflicts

SpecCalls == InitCalls /\ [][NextCalls]_vars

\* C18: generateRecurringDates, getEventsForDate and checkEventConflicts
\* never throw to their caller, whatever dates, strings, numbers, null events
\* and non-lists they are given; an invalid start date, a non-list, an
\* invalid query date and a null candidate give the empty result, and a null
\* element of a list is left out of the result.
C18_NeverThrows ==
  pc = "done" =>
    /\ ~threw
    /\ callee = "generateRecurringDates" /\ ~isValid(startDate) => dates = <<>>
    /\ callee = "getEventsForDate" =>
         /\ ~IsArray(events) \/ ~isValid(queryDate) => shown = <<>>
         /\ ~InSeq(NullEvent, shown)
    /\ callee = "checkEventConflicts" =>
         /\ ~IsArray(events) \/ newEvent = NullEvent => conflicts = <<>>
         /\ ~InSeq(NullEvent, conflicts)

\* a list with a null element and an event of the queried day: the call
\* returns the event
C18_Witness ==
  /\ pc = "done" /\ callee = "getEventsForDate" /\ ~threw
  /\ Len(events) = 2 /\ events[1] = NullEvent
  /\ shown = <<events[2]>>

----------------------------------------------------------------------------
(* Specification of the Calendar with its EventModal: the event list is    *)
(* drawn, then the modal is opened, edited and closed                      *)

StoredPool ==
  { Event(id, "t", <<2024, 3, 5>>, t[1], t[2], FALSE, "none", 1) :
      id \in {"a", "b"},
      t \in { << <<9, 0>>, <<10, 0>> >>, << <<10, 0>>, <<11, 0>> >> } }
  \cup { Event("b", "t", <<2024, 3, 6>>, <<9, 0>>, <<10, 0>>, TRUE, "weekly", 2),
         Event("c", "", <<2024, 3, 5>>, <<9, 0>>, <<10, 0>>, FALSE, "none", 1) }

UniqueIds(evts) ==
  \A j, k \in 1 .. Len(evts) : evts[j].id = evts[k].id => j = k

ClickableDates == { At(2024, 3, 6, 0, 0) }

FormTitles    == {"", "t"}
FormDates     == { <<2024, 3, 5>>, <<2024, 3, 6>> }
FormTimes     == { <<9, 0>>, <<10, 0>> }
FormPatterns  == {"daily", "weekly", "monthly"}
FormIntervals == {1, 2}

InitModal ==
  /\ now = At(2024, 3, 5, 14, 20)
  /\ events \in { evts \in SeqsUpTo(StoredPool, MaxStored) : UniqueIds(evts) }
  /\ ModalClosed /\ nextId = 1 /\ HostIdle
  /\ callee = "none" /\ threw = FALSE
  /\ conflicts = <<>>
  /\ queryDate = Undefined /\ shown = <<>> /\ newEvent = NoEvent
  /\ startDate = Undefined /\ pattern = "none" /\ interval = 1
  /\ endDate = Undefined /\ dates = <<>>
  /\ pc = "idle"

modalFrame == <<now, queryDate, shown, newEvent, pc, callee, threw, pending,
                localStorage, setError, drag>>

\* a click on a day cell selects the day and opens the list of its events
handleDateClick(days) ==
  /\ \E d \in days : selectedDate' = d
  /\ showEventList' = TRUE
  /\ UNCHANGED <<showModal, editingEvent, formData, formErrors, conflicts>>
  /\ UNCHANGED <<events, nextId>>
  /\ UNCHANGED modalFrame /\ UNCHANGED expandVars

\* a modal that is opened is mounted with the initial form and no conflicts;
\* a modal that is already open keeps its form, there is no event to copy
handleAddEvent ==
  /\ editingEvent' = NoEvent
  /\ showModal' = TRUE
  /\ IF showModal
     THEN UNCHANGED <<formData, formErrors, conflicts>>
     ELSE /\ formData' = initialFormData(selectedDate, now)
          /\ formErrors' = {}
          /\ conflicts' = ConflictEffect(initialFormData(selectedDate, now),
                                         events, now, <<>>)
  /\ UNCHANGED <<selectedDate, showEventList, events, nextId>>
  /\ UNCHANGED modalFrame /\ UNCHANGED expandVars

\* the populate effect copies the event into the form, when the modal is
\* mounted and whenever the event being edited changes
handleEditEvent ==
  \E k \in 1 .. Len(events) :
    LET event == events[k]
    IN  /\ editingEvent' = event
        /\ showModal' = TRUE
        /\ IF showModal /\ editingEvent = event
           THEN UNCHANGED <<formData, conflicts>>
           ELSE /\ formData' = PopulatedForm(event)
                /\ conflicts' =
                     ConflictEffect(PopulatedForm(event), events, now,
                                    IF showModal THEN conflicts ELSE <<>>)
        /\ formErrors' = IF showModal THEN formErrors ELSE {}
        /\ UNCHANGED <<selectedDate, showEventList, events, nextId>>
        /\ UNCHANGED modalFrame /\ UNCHANGED expandVars

\* the pattern kept when the box is unchecked
ChangedForm_noReset(form, name, value) == [form EXCEPT ![name] = value]

\* the form after handleChange for the input name with the value value
ChangedForm(form, name, value) ==
  LET newData == [form EXCEPT ![name] = value]
  IN  IF name = "recurring" /\ ~value
      THEN [newData EXCEPT !.recurrencePattern = "none"]
      ELSE newData

\* the inputs of the form and the values they can be given; the pattern and
\* the interval are shown while "recurring" is checked
FormInputs(form) ==
  { <<"title", v>> : v \in FormTitles }
  \cup { <<"date", v>> : v \in FormDates }
  \cup { <<"startTime", v>> : v \in FormTimes }
  \cup { <<"endTime", v>> : v \in FormTimes }
  \cup { <<"recurring", v>> : v \in BOOLEAN }
  \cup IF form.recurring
       THEN { <<"recurrencePattern", v>> : v \in FormPatterns }
            \cup { <<"recurrenceInterval", v>> : v \in FormIntervals }
       ELSE {}

\* one change event of an input: the form is updated, the error of the
\* changed field is cleared, and the conflict effect runs
handleChange(inputs) ==
  /\ showModal
  /\ \E in \in inputs :
       /\ formData' = ChangedForm(formData, in[1], in[2])
       /\ formErrors' = formErrors \ {in[1]}
       /\ conflicts' = ConflictEffect(ChangedForm(formData, in[1], in[2]),
                                      events, now, conflicts)
  /\ UNCHANGED <<selectedDate, showEventList, showModal, editingEvent, events,
                  nextId>>
  /\ UNCHANGED modalFrame /\ UNCHANGED expandVars

\* onClose: the modal is unmounted, its state is gone
CloseModal ==
  /\ showModal
  /\ showModal' = FALSE
  /\ editingEvent' = NoEvent
  /\ formData' = NoEvent
  /\ formErrors' = {}
  /\ conflicts' = <<>>
  /\ UNCHANGED <<selectedDate, showEventList, events, nextId>>
  /\ UNCHANGED modalFrame /\ UNCHANGED expandVars

NextModal ==
  \/ handleDateClick(ClickableDates)
  \/ handleAddEvent
  \/ handleEditEvent
  \/ handleChange(FormInputs(formData))
  \/ CloseModal

SpecModal == InitModal /\ [][NextModal]_vars

----------------------------------------------------------------------------
(* Properties of the EventModal, under SpecModal *)

Editing == showModal /\ editingEvent # NoEvent

\* C7: while the modal edits an existing event E and the date, start time
\* and end time of the form equal those stored in E, the conflicts computed
\* by the modal do not contain E.
C7_EditNeverSelfConflicts ==
  /\ Editing
  /\ formData.date = editingEvent.date
  /\ formData.startTime = editingEvent.startTime
  /\ formData.endTime = editingEvent.endTime
  => ~InSeq(editingEvent, conflicts)

----------------------------------------------------------------------------
(* EventModal.jsx: validateForm and handleSubmit; Calendar.jsx:            *)
(* handleSaveEvent                                                         *)

\* the empty string, the value of an input that was cleared
Empty == <<>>

\* a >= b for two strings that are empty or a zero-padded 'HH:MM', compared
\* as strings: the empty string is below every other string
StringGeq(a, b) ==
  IF b = Empty THEN TRUE
  ELSE IF a = Empty THEN FALSE
  ELSE a[1] > b[1] \/ (a[1] = b[1] /\ a[2] >= b[2])

\* the start only has to be no later than the end
validateForm_allowEqual(form) ==
  (IF form.title = "" THEN {"title"} ELSE {})
  \cup (IF form.date = Empty THEN {"date"} ELSE {})
  \cup (IF form.startTime = Empty THEN {"startTime"} ELSE {})
  \cup (IF form.endTime = Empty THEN {"endTime"} ELSE {})
  \cup (IF StringGeq(form.startTime, form.endTime)
           /\ form.startTime # form.endTime
        THEN {"endTime"} ELSE {})
  \cup (IF form.recurring /\ form.recurrenceInterval < 1
        THEN {"recurrenceInterval"} ELSE {})

\* the keys of the object "errors": the form is valid iff there is none
validateForm(form) ==
  (IF form.title = "" THEN {"title"} ELSE {})
  \cup (IF form.date = Empty THEN {"date"} ELSE {})
  \cup (IF form.startTime = Empty THEN {"startTime"} ELSE {})
  \cup (IF form.endTime = Empty THEN {"endTime"} ELSE {})
  \cup (IF StringGeq(form.startTime, form.endTime)
        THEN {"endTime"} ELSE {})
  \cup (IF form.recurring /\ form.recurrenceInterval < 1
        THEN {"recurrenceInterval"} ELSE {})

\* the n-th id handed out: every call returns an id not returned before
generateTimestampId(n) == ToString(n)

\* a new event put in front of the list
SavedEvents_prepend(evts, editing, eventData, n) ==
  IF editing # NoEvent
  THEN [k \in 1 .. Len(evts) |->
          IF evts[k].id = editing.id
          THEN [eventData EXCEPT !.id = editing.id]
          ELSE evts[k]]
  ELSE <<[eventData EXCEPT !.id = generateTimestampId(n)]>> \o evts

\* an edit storing the form as it is, without the id of the edited event
SavedEvents_formId(evts, editing, eventData, n) ==
  IF editing # NoEvent
  THEN [k \in 1 .. Len(evts) |->
          IF evts[k].id = editing.id THEN eventData ELSE evts[k]]
  ELSE Append(evts, [eventData EXCEPT !.id = generateTimestampId(n)])

\* the list after handleSaveEvent(eventData)
SavedEvents(evts, editing, eventData, n) ==
  IF editing # NoEvent
  THEN [k \in 1 .. Len(evts) |->
          IF evts[k].id = editing.id
          THEN [eventData EXCEPT !.id = editing.id]
          ELSE evts[k]]
  ELSE Append(evts, [eventData EXCEPT !.id = generateTimestampId(n)])

----------------------------------------------------------------------------
(* Specification of the Calendar saving events: the list starts empty,     *)
(* the modal is opened, the form is edited and submitted                   *)

\* the inputs of the form changed before a submission
SubmitInputs(form) ==
  { <<"title", v>> : v \in FormTitles }
  \cup { <<"startTime", v>> : v \in FormTimes }
  \cup { <<"endTime", v>> : v \in FormTimes }
  \cup { <<"recurring", v>> : v \in BOOLEAN }
  \cup IF form.recurring
       THEN { <<"recurrencePattern", "weekly">> }
       ELSE {}

InitCalendar ==
  /\ now = At(2024, 3, 5, 14, 20)
  /\ events = <<>>
  /\ ModalClosed /\ nextId = 1 /\ HostIdle
  /\ callee = "none" /\ threw = FALSE
  /\ conflicts = <<>>
  /\ queryDate = Undefined /\ shown = <<>> /\ newEvent = NoEvent
  /\ startDate = Undefined /\ pattern = "none" /\ interval = 1
  /\ endDate = Undefined /\ dates = <<>>
  /\ pc = "idle"

\* the submit handler of the form: validateForm sets the errors; a form that
\* has none is saved, after window.confirm when conflicts are shown, and
\* handleSaveEvent closes the modal
handleSubmit ==
  /\ showModal
  /\ formErrors' = validateForm(formData)
  /\ \E confirmSave \in BOOLEAN :
       IF validateForm(formData) # {} \/ (conflicts # <<>> /\ ~confirmSave)
       THEN UNCHANGED <<events, nextId, showModal, editingEvent, formData,
                        conflicts>>
       ELSE /\ editingEvent = NoEvent => Len(events) < MaxStored
            /\ events' = SavedEvents(events, editingEvent, formData, nextId)
            /\ nextId' = IF editingEvent = NoEvent THEN nextId + 1 ELSE nextId
            /\ showModal' = FALSE
            /\ editingEvent' = NoEvent
            /\ formData' = NoEvent
            /\ conflicts' = <<>>
  /\ UNCHANGED <<selectedDate, showEventList>>
  /\ UNCHANGED modalFrame /\ UNCHANGED expandVars

NextCalendar ==
  \/ handleAddEvent
  \/ handleEditEvent
  \/ handleChange(SubmitInputs(formData))
  \/ handleSubmit
  \/ CloseModal

SpecCalendar == InitCalendar /\ [][NextCalendar]_vars

\* "09:00" < "10:00" as strings
StringLt(a, b) == ~StringGeq(a, b)

\* C19: every event of the Calendar's list that has recurring = true has a
\* recurrencePattern other than 'none'.
C19_RecurringHasPattern ==
  \A k \in 1 .. Len(events) :
    events[k].recurring => events[k].recurrencePattern # "none"

\* C20: every event the list holds after a submission has its startTime
\* before its endTime as strings, and a submission of a form whose startTime
\* is not before its endTime leaves the list as it was.
C20_StartBeforeEnd ==
  [][ /\ \A k \in 1 .. Len(events') :
           StringLt(events'[k].startTime, events'[k].endTime)
      /\ handleSubmit /\ StringGeq(formData.startTime, formData.endTime)
         => events' = events /\ "endTime" \in formErrors' ]_vars

\* a form with a title and equal times was submitted and rejected with the
\* error on the end time, after two events had been saved
C20_Witness ==
  /\ showModal /\ formData.title = "t"
  /\ formData.startTime = formData.endTime
  /\ formErrors = {"endTime"}
  /\ Len(events) = 2

\* C26: in the form of an open modal and in every event of the list,
\* recurring = false implies recurrencePattern = 'none'.
C26_NotRecurringNoPattern ==
  /\ showModal /\ ~formData.recurring => formData.recurrencePattern = "none"
  /\ \A k \in 1 .. Len(events) :
       ~events[k].recurring => events[k].recurrencePattern = "none"

\* a weekly event is being edited and its box has been unchecked, next to an
\* event that was saved with the box unchecked
C26_Witness ==
  /\ showModal /\ editingEvent.recurring
  /\ editingEvent.recurrencePattern = "weekly"
  /\ ~formData.recurring /\ formData.recurrencePattern = "none"
  /\ \E k \in 1 .. Len(events) :
       ~events[k].recurring /\ events[k].recurrencePattern = "none"

----------------------------------------------------------------------------
(* Calendar.jsx: handleDeleteEvent, handleEventDrop, loadSampleEvents, and *)
(* eventUtils.js: generateSampleEvents                                     *)

\* prevEvents.filter(event => event.id !== eventId)
DeletedEvents(evts, eventId) ==
  SelectSeq(evts, LAMBDA event : event.id # eventId)

\* events.find(e => e.id === eventId), NoEvent for undefined
FindEvent(evts, eventId) ==
  IF \E k \in 1 .. Len(evts) : evts[k].id = eventId
  THEN evts[CHOOSE k \in 1 .. Len(evts) :
              /\ evts[k].id = eventId
              /\ \A j \in 1 .. k - 1 : evts[j].id # eventId]
  ELSE NoEvent

\* the list after handleEventDrop(eventId, newDate)
DroppedEvents(evts, eventId, newDate) ==
  LET event == FindEvent(evts, eventId)
  IN  IF event = NoEvent THEN evts
      ELSE [k \in 1 .. Len(evts) |->
              IF evts[k].id = eventId
              THEN [event EXCEPT !.date = format(newDate)]
              ELSE evts[k]]

\* the third sample has no recurrenceInterval, which reads as undefined and
\* is replaced by 1 wherever it is used: 0 stands for it
generateSampleEvents(clock) ==
  << Event("sample-1", "Team Meeting", format(clock), <<9, 0>>, <<10, 0>>,
           TRUE, "weekly", 1),
     Event("sample-2", "Lunch Break", format(clock), <<12, 0>>, <<13, 0>>,
           TRUE, "daily", 1),
     Event("sample-3", "Doctor Appointment", format(addDays(clock, 1)),
           <<14, 30>>, <<15, 30>>, FALSE, "none", 0) >>

\* the conflicts of an open modal after the list has changed to evts: the
\* conflict effect has existingEvents among its dependencies
ConflictsAfter(evts) ==
  IF showModal THEN ConflictEffect(formData, evts, now, conflicts)
  ELSE conflicts

----------------------------------------------------------------------------
(* Specification of the Calendar's operations on the event list: the list  *)
(* starts empty; events are added, edited, deleted, dropped on a day, and  *)
(* the samples are loaded. Every handler runs in an event of its own, and  *)
(* the component has rendered again before the next one.                   *)

\* forms that pass validateForm, as handleSubmit hands them to onSave
SaveData ==
  { Event(NoId, "t", <<2024, 3, 5>>, <<9, 0>>, <<10, 0>>, FALSE, "none", 1),
    Event(NoId, "t", <<2024, 3, 6>>, <<9, 0>>, <<10, 0>>, TRUE, "weekly", 2) }

\* the day cell that is clicked and the day events are dropped on
ClickedDates == { At(2024, 3, 5, 0, 0) }
DropDates    == { At(2024, 3, 6, 0, 0) }

InitOps == InitCalendar

\* onClose of the EventList
CloseEventList ==
  /\ showEventList
  /\ showEventList' = FALSE
  /\ UNCHANGED <<selectedDate, showModal, editingEvent, formData, formErrors,
                  conflicts, events, nextId>>
  /\ UNCHANGED modalFrame /\ UNCHANGED expandVars

\* onSave of the open modal with the submitted form
handleSaveEvent(eventData) ==
  /\ showModal
  /\ editingEvent = NoEvent => Len(events) < MaxStored /\ nextId <= MaxIds
  /\ events' = SavedEvents(events, editingEvent, eventData, nextId)
  /\ nextId' = IF editingEvent = NoEvent THEN nextId + 1 ELSE nextId
  /\ showModal' = FALSE
  /\ editingEvent' = NoEvent
  /\ formData' = NoEvent
  /\ formErrors' = {}
  /\ conflicts' = <<>>
  /\ UNCHANGED <<selectedDate, showEventList>>
  /\ UNCHANGED modalFrame /\ UNCHANGED expandVars

\* the delete button of an event of the open EventList, once confirmed
handleDeleteEvent(eventId) ==
  /\ showEventList /\ Truthy(selectedDate)
  /\ events' = DeletedEvents(events, eventId)
  /\ conflicts' = ConflictsAfter(DeletedEvents(events, eventId))
  /\ \E k \in 1 .. Len(events) :      \* the list shows the events of the day
       /\ events[k].id = eventId
       /\ OccursOnTry(events[k], selectedDate, now).value
  /\ UNCHANGED <<selectedDate, showEventList, showModal, editingEvent,
                  formData, formErrors, nextId>>
  /\ UNCHANGED modalFrame /\ UNCHANGED expandVars

\* the handler called for an event of the list and a day
handleEventDrop(eventId, newDate) ==
  /\ \E k \in 1 .. Len(events) : events[k].id = eventId
  /\ events' = DroppedEvents(events, eventId, newDate)
  /\ conflicts' = ConflictsAfter(DroppedEvents(events, eventId, newDate))
  /\ UNCHANGED <<selectedDate, showEventList, showModal, editingEvent,
                  formData, formErrors, nextId>>
  /\ UNCHANGED modalFrame /\ UNCHANGED expandVars

\* the button "Load Samples", shown while the list is empty
loadSampleEvents ==
  /\ Len(events) = 0
  /\ events' = events \o generateSampleEvents(now)
  /\ conflicts' = ConflictsAfter(events \o generateSampleEvents(now))
  /\ UNCHANGED <<selectedDate, showEventList, showModal, editingEvent,
                  formData, formErrors, nextId>>
  /\ UNCHANGED modalFrame /\ UNCHANGED expandVars

\* the ids of the events of the list
IdsOf(evts) == { evts[k].id : k \in 1 .. Len(evts) }

NextOps ==
  \/ handleDateClick(ClickedDates)
  \/ CloseEventList
  \/ handleAddEvent
  \/ handleEditEvent
  \/ CloseModal
  \/ \E eventData \in SaveData : handleSaveEvent(eventData)
  \/ \E eventId \in IdsOf(events) : handleDeleteEvent(eventId)
  \/ \E eventId \in IdsOf(events), newDate \in DropDates :
       handleEventDrop(eventId, newDate)
  \/ loadSampleEvents

SpecOps == InitOps /\ [][NextOps]_vars

----------------------------------------------------------------------------
(* Properties of the Calendar's operations, under SpecOps *)

\* the positions of the events of a list that have the id
WithId(evts, id) == { k \in 1 .. Len(evts) : evts[k].id = id }

\* C21: starting from the empty list no two events of the list ever share
\* an id, whichever operations are applied, and saving an edit leaves the id
\* at every position of the list as it was.
C21_UniqueIds ==
  [][ /\ UniqueIds(events')
      /\ \A eventData \in SaveData :
           handleSaveEvent(eventData) /\ editingEvent # NoEvent
           => /\ Len(events') = Len(events)
              /\ \A k \in 1 .. Len(events) : events'[k].id = events[k].id
    ]_vars

\* the three samples with one of them edited and saved
C21_Witness ==
  /\ Len(events) = 3 /\ ~showModal
  /\ IdsOf(events) = {"sample-1", "sample-2", "sample-3"}
  /\ \E k \in 1 .. 3 : events[k].title = "t"

\* C29: saving an edit keeps the length of the list and every event whose
\* id is not the id of the edited event; saving a new event appends one
\* event and keeps the others; deleting removes the events with the given id
\* and keeps the others in their order.
C29_FrameOfSaveAndDelete ==
  [][ /\ \A eventData \in SaveData :
           handleSaveEvent(eventData)
           => IF editingEvent # NoEvent
              THEN /\ Len(events') = Len(events)
                   /\ \A k \in 1 .. Len(events) :
                        events[k].id # editingEvent.id
                        => events'[k] = events[k]
              ELSE /\ Len(events') = Len(events) + 1
                   /\ \A k \in 1 .. Len(events) : events'[k] = events[k]
      /\ \A eventId \in IdsOf(events) :
           handleDeleteEvent(eventId)
           => /\ WithId(events', eventId) = {}
              /\ IsSubsequence(events', events)
              /\ Len(events') =
                   Len(events) - Cardinality(WithId(events, eventId))
    ]_vars

\* an event was added behind another, and the list is open to delete
C29_Witness ==
  /\ Len(events) = 2 /\ events[1].id = "1" /\ events[2].id = "3"
  /\ events[1].recurring /\ ~events[2].recurring
  /\ showEventList

\* C30: when an edit of the event E is saved, the list holds exactly one
\* event with the id of E afterwards, and it is the submitted form with that
\* id, whatever happened between the opening of the modal and the save.
C30_EditSavedOnce ==
  [][ \A eventData \in SaveData :
        handleSaveEvent(eventData) /\ editingEvent # NoEvent
        => /\ Cardinality(WithId(events', editingEvent.id)) = 1
           /\ \A k \in WithId(events', editingEvent.id) :
                events'[k] = [eventData EXCEPT !.id = editingEvent.id]
    ]_vars

----------------------------------------------------------------------------
(* Specification of dragging a chip in the Calendar's grid. Calendar.jsx    *)
(* renders every day as a plain div holding the chips of the day; the only *)
(* drop targets on the page are the chips themselves, whose drop returns   *)
(* { handled: true }. DroppableCalendarDay is exported and rendered        *)
(* nowhere.                                                                *)

\* the days of the grid the pointer moves over
DragDays == { At(2024, 3, 5, 0, 0), At(2024, 3, 6, 0, 0), At(2024, 3, 7, 0, 0) }

InitDrag == InitModal

dragFrame == <<now, queryDate, shown, newEvent, pc, callee, threw, pending,
               localStorage, setError, conflicts>>

\* what monitor.getDropResult() returns after a release over the day cell:
\* the result of the innermost drop target under the pointer, null if there
\* is none. dayIsTarget tells whether the cell is a DroppableCalendarDay.
DropResultOver(day, onChip, dayIsTarget) ==
  IF onChip THEN [isNull |-> FALSE, date |-> Undefined]
  ELSE IF dayIsTarget THEN [isNull |-> FALSE, date |-> day]
  ELSE [isNull |-> TRUE, date |-> Undefined]

\* the cells of the grid are plain divs
DayCellIsDropTarget == FALSE

\* the chip of an event is picked up in the cell of a day it is shown on
BeginDrag(eventId, day) ==
  /\ drag.phase \in {"idle", "ended"}
  /\ drag' = [NoDrag EXCEPT !.phase = "dragging", !.item = eventId,
                            !.from = day]
  /\ \E k \in 1 .. Len(events) :
       /\ events[k].id = eventId
       /\ OccursOnTry(events[k], day, now).value
  /\ UNCHANGED events
  /\ UNCHANGED dragFrame /\ UNCHANGED modalVars /\ UNCHANGED expandVars

\* the pointer is released over the cell of a day, on one of its chips or
\* beside them
Release(day, onChip) ==
  /\ drag.phase = "dragging"
  /\ drag' = [drag EXCEPT !.phase = "dropped", !.over = day,
                          !.dropResult =
                             DropResultOver(day, onChip, DayCellIsDropTarget)]
  /\ onChip => \E k \in 1 .. Len(events) :
                  OccursOnTry(events[k], day, now).value
  /\ UNCHANGED events
  /\ UNCHANGED dragFrame /\ UNCHANGED modalVars /\ UNCHANGED expandVars

\* the end callback of useDrag
EndDrag ==
  /\ drag.phase = "dropped"
  /\ drag' = [drag EXCEPT !.phase = "ended"]
  /\ events' = IF ~drag.dropResult.isNull /\ Truthy(drag.dropResult.date)
               THEN DroppedEvents(events, drag.item, drag.dropResult.date)
               ELSE events
  /\ UNCHANGED dragFrame /\ UNCHANGED modalVars /\ UNCHANGED expandVars

NextDrag ==
  \/ \E eventId \in IdsOf(events), day \in DragDays : BeginDrag(eventId, day)
  \/ \E day \in DragDays, onChip \in BOOLEAN : Release(day, onChip)
  \/ EndDrag

SpecDrag == InitDrag /\ [][NextDrag]_vars

\* C22: once the drag of a chip has ended after a release over the cell of
\* a day other than the one it was picked up on, the dragged event's stored
\* date is that day.
C22_DropReschedules ==
  drag.phase = "ended" /\ ~isSameDay(drag.over, drag.from)
  => \A k \in 1 .. Len(events) :
       events[k].id = drag.item => events[k].date = format(drag.over)

----------------------------------------------------------------------------
(* useLocalStorage.js: the hook behind the Calendar's event list. events   *)
(* is storedValue as of the last render, which is also the value the       *)
(* current setValue closes over; pending is the update setStoredValue has  *)
(* queued for the next render.                                             *)

\* JSON.stringify of a list of events: the text, one entry of field values
\* per event, in the order of the list
JSONstringify(evts) ==
  [k \in 1 .. Len(evts) |->
     << evts[k].id, evts[k].title, evts[k].date, evts[k].startTime,
        evts[k].endTime, evts[k].recurring, evts[k].recurrencePattern,
        evts[k].recurrenceInterval >>]

\* a parse returning the events in the opposite order
JSONparse_reversed(item) ==
  [k \in 1 .. Len(item) |->
     LET o == item[Len(item) + 1 - k]
     IN  Event(o[1], o[2], o[3], o[4], o[5], o[6], o[7], o[8])]

\* JSON.parse of such a text
JSONparse(item) ==
  [k \in 1 .. Len(item) |->
     Event(item[k][1], item[k][2], item[k][3], item[k][4], item[k][5],
           item[k][6], item[k][7], item[k][8])]

\* the events the updaters add
HookPool ==
  { Event("a", "t", <<2024, 3, 5>>, <<9, 0>>, <<10, 0>>, FALSE, "none", 1),
    Event("b", "t", <<2024, 3, 6>>, <<9, 0>>, <<10, 0>>, TRUE, "weekly", 2) }

\* the updater functions the Calendar passes to setEvents
Updaters ==
  { [op |-> "add", event |-> e, id |-> e.id] : e \in HookPool }
  \cup { [op |-> "delete", event |-> NoEvent, id |-> i] : i \in {"a", "b"} }

\* value(prev) for an updater
Apply(value, prev) ==
  IF value.op = "add" THEN Append(prev, value.event)
  ELSE DeletedEvents(prev, value.id)

\* the value set most recently: the queued one, else the rendered one
Latest == IF pending.set THEN pending.value ELSE events

InitHook == InitCalendar

hookFrame == <<now, queryDate, shown, newEvent, pc, callee, threw, drag,
               conflicts>>

\* setValue(value) with an updater; writes tells whether
\* localStorage.setItem stores the item or throws (quota exceeded, storage
\* denied), which the catch block logs
SetValue(value, writes) ==
  LET valueToStore == Apply(value, events)
  IN  /\ value.op = "add" => Len(events) < MaxStored
      /\ pending' = [set |-> TRUE, value |-> valueToStore]
      /\ IF writes
         THEN /\ localStorage' = [present |-> TRUE,
                                  item |-> JSONstringify(valueToStore)]
              /\ setError' = FALSE
         ELSE /\ UNCHANGED localStorage
              /\ setError' = TRUE
      /\ UNCHANGED events
      /\ UNCHANGED hookFrame /\ UNCHANGED modalVars /\ UNCHANGED expandVars

\* the component renders again with the queued state; setValue is created
\* again over the new storedValue
Render ==
  /\ pending.set
  /\ events' = pending.value
  /\ pending' = NoPending
  /\ UNCHANGED <<localStorage, setError>>
  /\ UNCHANGED hookFrame /\ UNCHANGED modalVars /\ UNCHANGED expandVars

\* the page is loaded again: the initialiser of useState reads the item
Reinitialise ==
  /\ events' = IF localStorage.present THEN JSONparse(localStorage.item)
               ELSE <<>>
  /\ pending' = NoPending
  /\ setError' = FALSE
  /\ UNCHANGED localStorage
  /\ UNCHANGED hookFrame /\ UNCHANGED modalVars /\ UNCHANGED expandVars

NextHook ==
  \/ \E value \in Updaters, writes \in BOOLEAN : SetValue(value, writes)
  \/ Render
  \/ Reinitialise

SpecHook == InitHook /\ [][NextHook]_vars

\* the item under the key is the serialization of the value set most
\* recently, and reading it back yields that value
StoredIsCurrent ==
  /\ localStorage.present
  /\ localStorage.item = JSONstringify(Latest)
  /\ JSONparse(localStorage.item) = Latest

C27_UpdaterOnLatest ==
  [][ \A value \in Updaters :
        SetValue(value, TRUE) => Latest' = Apply(value, Latest) ]_vars

====
